---------------------------- MODULE Spec2Model ----------------------------
(***************************************************************************)
(* A model of litellm/proxy/_types.py: the request and record types of the *)
(* proxy (their defaults and root validators), the route-group catalog and *)
(* the JWT-auth profile, together with the resolvers the specification     *)
(* describes over them (authorize_route, resolve_limits, resolve_budget).  *)
(*                                                                         *)
(* Conventions.                                                            *)
(*   Optional[T]  : a set with at most one element, None == {} .           *)
(*   str          : a sequence of one-character strings where the code     *)
(*                  looks inside the string (startswith, duration parse),  *)
(*                  a TLA+ string where it is only compared.               *)
(*   float        : an integer number of budget units.                     *)
(*   datetime     : an integer number of seconds.                          *)
(*   kwargs/rows  : a record of Optional values; a key that is absent and  *)
(*                  a key that is null both read as None (values.get), and *)
(*                  "fields_set" names the keys that were given where the  *)
(*                  class default is not None.                             *)
(***************************************************************************)
EXTENDS Integers, Sequences, FiniteSets, TLC

VARIABLES
    endUsers,       \* user_id -> Optional[NewEndUserRequest]: the accepted End-User requests
    endUserCall,    \* the last NewEndUserRequest(**values) call and its outcome
    authCall,       \* the last UserAPIKeyAuth(**values) call and its outcome
    jwt_auth,       \* the configured LiteLLM_JWTAuth profile
    jwtCall,        \* the last LiteLLM_JWTAuth(**kwargs) call and its outcome
    routeCall,      \* the last authorize_route call and its outcome
    keyRow,         \* the persisted LiteLLM_VerificationToken row
    userRow,        \* the persisted LiteLLM_UserTable row
    teamRow,        \* the persisted LiteLLM_TeamTable row
    budgetRow,      \* the persisted LiteLLM_BudgetTable row of the key's organization
    now,            \* the clock, in seconds
    limitsCall,     \* the last resolve_limits call and its outcome
    budgetCall,     \* the last resolve_budget call and its outcome
    op,             \* the last operation on the persisted rows, with its request
    upperbound_key_generate_params,
                    \* the configured LiteLLM_UpperboundKeyGenerateParams, if any
    generateCall,   \* the last key-creation request and its outcome
    keys,           \* the keys created, as the requests that created them
    storedRecord,   \* a persisted record as storage hands it over, field name -> value
    recordCall,     \* the last normalisation of storedRecord and its outcome
    memberCall,     \* the last Member / user-update / member-delete construction
    members_with_roles
                    \* the Member records held by the team

vars == <<endUsers, endUserCall, authCall, jwt_auth, jwtCall, routeCall, keyRow, userRow,
          teamRow, budgetRow, now, limitsCall, budgetCall, op,
          upperbound_key_generate_params, generateCall, keys, storedRecord, recordCall,
          memberCall, members_with_roles>>

requestVars == <<endUsers, endUserCall, authCall>>
routeVars   == <<jwt_auth, jwtCall, routeCall>>
rowVars     == <<keyRow, userRow, teamRow, budgetRow>>
ledgerVars  == <<rowVars, now, limitsCall, budgetCall, op>>
keygenVars  == <<upperbound_key_generate_params, generateCall, keys>>
recordVars  == <<storedRecord, recordCall>>
memberVars  == <<memberCall, members_with_roles>>
adminVars   == <<keygenVars, recordVars, memberVars>>

-----------------------------------------------------------------------------
(* Optional values *)

None == {}
Some(v) == {v}
Val(o) == CHOOSE v \in o : TRUE
Opt(S) == {None} \cup {Some(v) : v \in S}

(* Strings the code looks inside *)

startswith(s, prefix) ==
    /\ Len(s) >= Len(prefix)
    /\ SubSeq(s, 1, Len(prefix)) = prefix

sk_prefix == <<"s", "k", "-">>

-----------------------------------------------------------------------------
(* hash_token: the SHA-256 hex digest of the token.  A digest is modelled   *)
(* as the marker "#" followed by the hashed text: it is a string again (it  *)
(* can be hashed once more), injective, never equal to its argument, and -  *)
(* like a hex digest - never starts with "sk-".                             *)

hash_token(token) == <<"#">> \o token

-----------------------------------------------------------------------------
(* NewEndUserRequest *)

UserIds   == {"u1", "u2"}
BudgetIds == {"b1"}
MaxBudgetSamples == {0, 10}

EndUserValues ==
    [user_id : Opt(UserIds), max_budget : Opt(MaxBudgetSamples), budget_id : Opt(BudgetIds)]

Ok(v)       == [ok |-> TRUE, value |-> v, error |-> "", msg |-> ""]
Err(e, m)   == [ok |-> FALSE, value |-> None, error |-> e, msg |-> m]

\* A truthiness test in place of "is not None": max_budget = 0.0 reads as unset.
NewEndUserRequest_check_user_info_truthy(values) ==
    IF values.max_budget # None /\ values.max_budget # Some(0) /\ values.budget_id # None
    THEN Err("ValidationError", "Set either 'max_budget' or 'budget_id', not both.")
    ELSE Ok(Some(values))

\* @root_validator(pre=True): raises ValueError, which pydantic reports as a
\* ValidationError, when both are not None; else hands the values on.
NewEndUserRequest_check_user_info(values) ==
    IF values.max_budget # None /\ values.budget_id # None
    THEN Err("ValidationError", "Set either 'max_budget' or 'budget_id', not both.")
    ELSE Ok(Some(values))

\* The construction: the pre root validator, then the fields (user_id: str is
\* required), then the defaults of the fields that were not given.
NewEndUserRequest(values) ==
    LET pre == NewEndUserRequest_check_user_info(values) IN
    IF ~pre.ok THEN pre
    ELSE IF values.user_id = None THEN Err("ValidationError", "user_id: field required")
    ELSE Ok(Some([user_id |-> Val(values.user_id),
                  alias |-> None,
                  blocked |-> FALSE,
                  max_budget |-> values.max_budget,
                  budget_id |-> values.budget_id,
                  allowed_model_region |-> None,
                  default_model |-> None]))

\* A management operation constructs the request; an accepted request is kept
\* under its user_id.
NewEndUser(values) ==
    LET r == NewEndUserRequest(values) IN
    /\ endUserCall' = [values |-> Some(values), result |-> r]
    /\ endUsers' = IF r.ok THEN [endUsers EXCEPT ![Val(values.user_id)] = r.value]
                   ELSE endUsers
    /\ UNCHANGED <<authCall, routeVars, ledgerVars, adminVars>>

-----------------------------------------------------------------------------
(* UserAPIKeyAuth *)

Credentials ==
    { <<"s", "k", "-", "1">>,          \* a virtual key
      <<"s", "k", "-">>,               \* the bare prefix
      <<"s", "k">>,                    \* shorter than the prefix
      <<"S", "K", "-", "1">>,          \* the prefix is case sensitive
      <<"m", "y", "k", "e", "y">>,     \* a secret without the prefix
      hash_token(<<"s", "k", "-", "1">>) }   \* an already hashed token

AuthValues == [api_key : Opt(Credentials), token : Opt(Credentials)]

\* The prefix test dropped: every api_key is replaced by its hash.
UserAPIKeyAuth_check_api_key_always(values) ==
    IF values.api_key # None
    THEN [values EXCEPT !.token = Some(hash_token(Val(values.api_key))),
                        !.api_key = Some(hash_token(Val(values.api_key)))]
    ELSE values

\* @root_validator(pre=True)
UserAPIKeyAuth_check_api_key(values) ==
    IF values.api_key # None
    THEN LET hashed == [values EXCEPT !.token = Some(hash_token(Val(values.api_key)))] IN
         IF startswith(Val(values.api_key), sk_prefix)
         THEN [hashed EXCEPT !.api_key = Some(hash_token(Val(values.api_key)))]
         ELSE hashed
    ELSE values

\* The construction: the pre root validator, then the fields with their defaults.
UserAPIKeyAuth(values) ==
    LET v == UserAPIKeyAuth_check_api_key(values) IN
    Ok(Some([token |-> v.token,
             api_key |-> v.api_key,
             key_name |-> None,
             key_alias |-> None,
             user_role |-> None]))

NewUserAPIKeyAuth(values) ==
    /\ authCall' = [values |-> Some(values), result |-> UserAPIKeyAuth(values)]
    /\ UNCHANGED <<endUsers, endUserCall, routeVars, ledgerVars, adminVars>>

-----------------------------------------------------------------------------
(* LiteLLMRoutes: the route-group catalog.  A path is the sequence of its   *)
(* segments: "/key/generate" is <<"key", "generate">> and "/" is <<>>.       *)

openai_routes ==
    << <<"openai", "deployments", "{model}", "chat", "completions">>,
       <<"chat", "completions">>,
       <<"v1", "chat", "completions">>,
       <<"openai", "deployments", "{model}", "completions">>,
       <<"completions">>,
       <<"v1", "completions">>,
       <<"openai", "deployments", "{model}", "embeddings">>,
       <<"embeddings">>,
       <<"v1", "embeddings">>,
       <<"images", "generations">>,
       <<"v1", "images", "generations">>,
       <<"audio", "transcriptions">>,
       <<"v1", "audio", "transcriptions">>,
       <<"moderations">>,
       <<"v1", "moderations">>,
       <<"models">>,
       <<"v1", "models">> >>

info_routes ==
    << <<"key", "info">>,
       <<"team", "info">>,
       <<"team", "list">>,
       <<"user", "info">>,
       <<"model", "info">>,
       <<"v2", "model", "info">>,
       <<"v2", "key", "info">> >>

\* The catalog without its master-key-only entry.
master_key_only_routes_none == << >>

master_key_only_routes ==
    << <<"global", "spend", "reset">> >>

\* The catalog with "/key/generate" left out of the SSO-only group.
sso_only_routes_short ==
    << <<"key", "update">>,
       <<"key", "delete">>,
       <<"global", "spend", "logs">>,
       <<"global", "predict", "spend", "logs">> >>

sso_only_routes ==
    << <<"key", "generate">>,
       <<"key", "update">>,
       <<"key", "delete">>,
       <<"global", "spend", "logs">>,
       <<"global", "predict", "spend", "logs">> >>

management_routes ==
    << <<"key", "generate">>,
       <<"key", "update">>,
       <<"key", "delete">>,
       <<"key", "info">>,
       <<"user", "new">>,
       <<"user", "update">>,
       <<"user", "delete">>,
       <<"user", "info">>,
       <<"team", "new">>,
       <<"team", "update">>,
       <<"team", "delete">>,
       <<"team", "list">>,
       <<"team", "info">>,
       <<"team", "block">>,
       <<"team", "unblock">>,
       <<"model", "new">>,
       <<"model", "update">>,
       <<"model", "delete">>,
       <<"model", "info">> >>

spend_tracking_routes ==
    << <<"spend", "keys">>,
       <<"spend", "users">>,
       <<"spend", "tags">>,
       <<"spend", "calculate">>,
       <<"spend", "logs">> >>

\* The global spend group with the reset route listed in it.
global_spend_tracking_routes_with_reset ==
    << <<"global", "spend", "logs">>,
       <<"global", "spend">>,
       <<"global", "spend", "keys">>,
       <<"global", "spend", "teams">>,
       <<"global", "spend", "end_users">>,
       <<"global", "spend", "models">>,
       <<"global", "predict", "spend", "logs">>,
       <<"global", "spend", "reset">> >>

global_spend_tracking_routes ==
    << <<"global", "spend", "logs">>,
       <<"global", "spend">>,
       <<"global", "spend", "keys">>,
       <<"global", "spend", "teams">>,
       <<"global", "spend", "end_users">>,
       <<"global", "spend", "models">>,
       <<"global", "predict", "spend", "logs">> >>

public_routes ==
    << <<"routes">>,
       << >>,
       <<"health", "liveliness">>,
       <<"health", "readiness">>,
       <<"test">>,
       <<"config", "yaml">>,
       <<"metrics">> >>

\* LiteLLMRoutes[name].value
LiteLLMRoutes(name) ==
    CASE name = "openai_routes" -> openai_routes
      [] name = "info_routes" -> info_routes
      [] name = "master_key_only_routes" -> master_key_only_routes
      [] name = "sso_only_routes" -> sso_only_routes
      [] name = "management_routes" -> management_routes
      [] name = "spend_tracking_routes" -> spend_tracking_routes
      [] name = "global_spend_tracking_routes" -> global_spend_tracking_routes
      [] name = "public_routes" -> public_routes

-----------------------------------------------------------------------------
(* LiteLLM_JWTAuth: the JWT-auth profile.  The allow-lists are lists of     *)
(* group names that are only searched, so they are modelled as sets.        *)

\* The annotations and team_jwt_scope, which the docstring of the class
\* lists among its attributes.
LiteLLM_JWTAuth_annotations_documented ==
    {"admin_jwt_scope", "admin_allowed_routes", "team_jwt_scope", "team_id_jwt_field",
     "team_allowed_routes", "team_id_default", "org_id_jwt_field", "user_id_jwt_field",
     "user_id_upsert", "end_user_id_jwt_field", "public_key_ttl"}

LiteLLM_JWTAuth_annotations ==
    {"admin_jwt_scope", "admin_allowed_routes", "team_id_jwt_field", "team_allowed_routes",
     "team_id_default", "org_id_jwt_field", "user_id_jwt_field", "user_id_upsert",
     "end_user_id_jwt_field", "public_key_ttl"}

AdminRouteNames ==
    {"openai_routes", "info_routes", "management_routes", "spend_tracking_routes",
     "global_spend_tracking_routes"}

TeamRouteNames == {"openai_routes", "info_routes", "management_routes"}

\* The team default widened by management_routes.
team_allowed_routes_default_wide == {"openai_routes", "info_routes", "management_routes"}

admin_allowed_routes_default ==
    {"management_routes", "spend_tracking_routes", "global_spend_tracking_routes", "info_routes"}

team_allowed_routes_default == {"openai_routes", "info_routes"}

admin_jwt_scope_default == "litellm_proxy_admin"

\* __init__(**kwargs): unknown keys raise ValueError before pydantic sees them;
\* otherwise each field is the given value or its default.  kwargs.keys is the
\* set of keys given, which the instance keeps as fields_set().
LiteLLM_JWTAuth(kwargs) ==
    LET allowed_keys == LiteLLM_JWTAuth_annotations
        invalid_keys == kwargs.keys \ allowed_keys
    IN
    IF invalid_keys # {} THEN Err("ValueError", "Invalid arguments provided")
    ELSE IF \/ "admin_allowed_routes" \in kwargs.keys
               /\ ~(kwargs.admin_allowed_routes \subseteq AdminRouteNames)
            \/ "team_allowed_routes" \in kwargs.keys
               /\ ~(kwargs.team_allowed_routes \subseteq TeamRouteNames)
         THEN Err("ValidationError", "unexpected value; permitted: the Literal's values")
    ELSE Ok(Some([fields_set |-> kwargs.keys,
                  admin_jwt_scope |-> admin_jwt_scope_default,
                  admin_allowed_routes |->
                      IF "admin_allowed_routes" \in kwargs.keys
                      THEN kwargs.admin_allowed_routes ELSE admin_allowed_routes_default,
                  team_id_jwt_field |-> None,
                  team_allowed_routes |->
                      IF "team_allowed_routes" \in kwargs.keys
                      THEN kwargs.team_allowed_routes ELSE team_allowed_routes_default,
                  team_id_default |-> None,
                  org_id_jwt_field |-> None,
                  user_id_jwt_field |-> None,
                  user_id_upsert |-> FALSE,
                  end_user_id_jwt_field |-> None,
                  public_key_ttl |-> 600]))

NoKwargs == [keys |-> {}, admin_allowed_routes |-> {}, team_allowed_routes |-> {}]

AdminRouteSamples ==
    { {}, AdminRouteNames, admin_allowed_routes_default, {"openai_routes"},
      {"management_routes", "global_spend_tracking_routes"} }

TeamRouteSamples == { {}, TeamRouteNames, team_allowed_routes_default, {"management_routes"} }

\* The kwargs a configuration may give: any subset of the two allow-list keys,
\* each with a list of group names its Literal permits (the empty list, the
\* full list, the default and others).
JWTAuthKwargs ==
    { [keys |-> ks,
       admin_allowed_routes |-> IF "admin_allowed_routes" \in ks THEN a ELSE {},
       team_allowed_routes |-> IF "team_allowed_routes" \in ks THEN t ELSE {}] :
        ks \in SUBSET {"admin_allowed_routes", "team_allowed_routes"},
        a \in AdminRouteSamples,
        t \in TeamRouteSamples }

\* Keys the class does not declare: team_jwt_scope, which its docstring
\* names, and a misspelt allow-list.
UnknownKeys == {"team_jwt_scope", "admin_routes"}

\* The kwargs above with any of the unknown keys added.
JWTAuthKwargsAny ==
    { [kwargs EXCEPT !.keys = @ \cup unknown] :
        kwargs \in JWTAuthKwargs, unknown \in SUBSET UnknownKeys }

\* ConfigGeneralSettings.master_key, as configured.
master_key == Some("sk-1234")

-----------------------------------------------------------------------------
(* authorize_route(principal, requested_path) -> Allowed | Denied(reason)   *)

Placeholders == {"{model}"}

\* A path matches a template when it equals it segment by segment, a
\* placeholder matching any single segment.
matches_template(path, template) ==
    /\ Len(path) = Len(template)
    /\ \A i \in 1..Len(template) : template[i] \in Placeholders \/ template[i] = path[i]

in_route_group(path, group) ==
    \E i \in 1..Len(group) : matches_template(path, group[i])

\* proxy_admin if the admin scope is present, else team-scoped if a team-id
\* claim is present, else a plain authenticated caller.
resolve_role(profile, principal) ==
    IF profile.admin_jwt_scope \in principal.scopes THEN "proxy_admin"
    ELSE IF principal.team_id # None THEN "team"
    ELSE "authenticated"

\* The route groups listed as allowed for a role; the profile lists none for a
\* plain authenticated caller.
allowed_route_groups(profile, role) ==
    CASE role = "proxy_admin" -> profile.admin_allowed_routes
      [] role = "team" -> profile.team_allowed_routes
      [] OTHER -> {}

in_allowed_routes(profile, role, path) ==
    \E name \in allowed_route_groups(profile, role) : in_route_group(path, LiteLLMRoutes(name))

Allowed(stage) == [verdict |-> "Allowed", reason |-> "", decided_by |-> stage]
Denied(reason, stage) == [verdict |-> "Denied", reason |-> reason, decided_by |-> stage]

\* The checks in their order; decided_by records the check that decided.
authorize_route(profile, principal, requested_path) ==
    IF in_route_group(requested_path, LiteLLMRoutes("public_routes"))
    THEN Allowed("public_routes")
    ELSE IF in_route_group(requested_path, LiteLLMRoutes("master_key_only_routes"))
    THEN IF Some(principal.credential) = master_key
         THEN Allowed("master_key_only_routes")
         ELSE Denied("route_not_permitted", "master_key_only_routes")
    ELSE IF in_route_group(requested_path, LiteLLMRoutes("sso_only_routes")) /\ ~principal.sso
    THEN Denied("route_not_permitted", "sso_only_routes")
    ELSE IF in_allowed_routes(profile, resolve_role(profile, principal), requested_path)
    THEN Allowed("role")
    ELSE Denied("route_not_permitted", "role")

CredentialSamples == {"sk-1234", "SK-1234", "sk-5678", "eyJhbGciOi"}
ScopeSamples == {{}, {"litellm_proxy_admin"}, {"read"}}
TeamIds == {"t1"}

Principals ==
    [credential : CredentialSamples, scopes : ScopeSamples, team_id : Opt(TeamIds),
     sso : BOOLEAN]

RequestPaths ==
    { <<"key", "generate">>,
      <<"key", "info">>,
      <<"v1", "chat", "completions">>,
      <<"openai", "deployments", "gpt-4", "chat", "completions">>,
      <<"openai", "deployments", "chat", "completions">>,
      <<"global", "spend", "reset">>,
      <<"global", "spend", "logs">>,
      <<"global", "predict", "spend", "logs">>,
      <<"global", "spend">>,
      <<"key", "update">>,
      <<"key", "delete">>,
      <<"spend", "logs">>,
      <<"health", "liveliness">>,
      << >>,
      <<"admin", "secret">> }

NoRouteCall == [principal |-> None, path |-> None, result |-> None]

\* The profile is (re)configured; the caller and the decisions taken under
\* the old profile are dropped.
ConfigureJWTAuth(kwargs) ==
    LET r == LiteLLM_JWTAuth(kwargs) IN
    /\ r.ok
    /\ jwt_auth' = Val(r.value)
    /\ jwtCall' = [kwargs |-> Some(kwargs), result |-> r]
    /\ routeCall' = NoRouteCall
    /\ UNCHANGED <<requestVars, ledgerVars, adminVars>>

\* A configuration whose construction raises: no profile is made and the one
\* in place stays.
RejectJWTAuth(kwargs) ==
    LET r == LiteLLM_JWTAuth(kwargs) IN
    /\ ~r.ok
    /\ jwtCall' = [kwargs |-> Some(kwargs), result |-> r]
    /\ UNCHANGED <<jwt_auth, routeCall, requestVars, ledgerVars, adminVars>>

\* A caller presents a credential; its claims make the principal of the
\* requests that follow.
Authenticate(principal) ==
    /\ routeCall' = [principal |-> Some(principal), path |-> None, result |-> None]
    /\ UNCHANGED <<jwt_auth, jwtCall, requestVars, ledgerVars, adminVars>>

\* The caller requests a path.
AuthorizeRoute(path) ==
    /\ routeCall.principal # None
    /\ routeCall' = [routeCall EXCEPT
                        !.path = Some(path),
                        !.result = Some(authorize_route(jwt_auth, Val(routeCall.principal), path))]
    /\ UNCHANGED <<jwt_auth, jwtCall, requestVars, ledgerVars, adminVars>>

-----------------------------------------------------------------------------
(* The persisted records and their normalisation.  A row is what storage    *)
(* holds: fields_set names the columns the row gives, and a column that is  *)
(* not given takes the class default when the record is constructed.        *)

KeyFields ==
    {"spend", "max_budget", "tpm_limit", "rpm_limit", "max_parallel_requests",
     "budget_duration", "budget_reset_at"}

\* tpm_limit defaulting to 0 instead of None.
LiteLLM_VerificationToken_defaults_tpm_zero ==
    [spend |-> Some(0), max_budget |-> None, tpm_limit |-> Some(0), rpm_limit |-> None,
     max_parallel_requests |-> None, budget_duration |-> None, budget_reset_at |-> None]

\* max_budget defaulting to 0.0, as spend does, instead of None.
LiteLLM_VerificationToken_defaults_budget_zero ==
    [spend |-> Some(0), max_budget |-> Some(0), tpm_limit |-> None, rpm_limit |-> None,
     max_parallel_requests |-> None, budget_duration |-> None, budget_reset_at |-> None]

LiteLLM_VerificationToken_defaults ==
    [spend |-> Some(0), max_budget |-> None, tpm_limit |-> None, rpm_limit |-> None,
     max_parallel_requests |-> None, budget_duration |-> None, budget_reset_at |-> None]

\* LiteLLM_VerificationToken(**row): no validator; each field is the row's
\* value or the default.
LiteLLM_VerificationToken(row) ==
    [f \in KeyFields |->
        IF f \in row.fields_set THEN row[f] ELSE LiteLLM_VerificationToken_defaults[f]]

LiteLLM_VerificationTokenView_defaults == [soft_budget |-> None]

\* LiteLLM_VerificationTokenView(**row), the record an authorization reads:
\* the token's fields and soft_budget, which LiteLLM_VerificationToken itself
\* does not declare.
LiteLLM_VerificationTokenView(row) ==
    [f \in KeyFields \cup {"soft_budget"} |->
        IF f = "soft_budget"
        THEN IF f \in row.fields_set THEN row[f]
             ELSE LiteLLM_VerificationTokenView_defaults[f]
        ELSE LiteLLM_VerificationToken(row)[f]]

\* LiteLLM_UserTable(**row): set_model_info turns a null or absent spend into
\* 0.0.  The class has tpm_limit and rpm_limit and no max_parallel_requests.
LiteLLM_UserTable(row) ==
    [spend |-> IF row.spend = None THEN Some(0) ELSE row.spend,
     tpm_limit |-> row.tpm_limit,
     rpm_limit |-> row.rpm_limit]

\* LiteLLM_TeamTable(**row): the limit and budget fields all default to None.
LiteLLM_TeamTable(row) ==
    [max_budget |-> row.max_budget,
     tpm_limit |-> row.tpm_limit,
     rpm_limit |-> row.rpm_limit,
     max_parallel_requests |-> row.max_parallel_requests]

\* LiteLLM_BudgetTable(**row) of the key's organization.
LiteLLM_BudgetTable(row) ==
    [max_budget |-> row.max_budget]

EmptyKeyRow ==
    [fields_set |-> {}, spend |-> None, max_budget |-> None, tpm_limit |-> None,
     rpm_limit |-> None, max_parallel_requests |-> None, budget_duration |-> None,
     budget_reset_at |-> None, soft_budget |-> None]

EmptyUserRow == [spend |-> None, tpm_limit |-> None, rpm_limit |-> None]

EmptyTeamRow ==
    [max_budget |-> None, tpm_limit |-> None, rpm_limit |-> None,
     max_parallel_requests |-> None]

EmptyBudgetRow == [max_budget |-> None]

-----------------------------------------------------------------------------
(* UpdateKeyRequest and UpdateUserRequest: "the defaults of all Params here *)
(* MUST BE NONE else they will get overwritten" - a field of the request    *)
(* that is not None overwrites the stored one.                              *)

UpdateFields ==
    {"spend", "max_budget", "tpm_limit", "rpm_limit", "max_parallel_requests",
     "soft_budget"}

\* spend keeping the default 0 of GenerateRequestBase instead of None.
UpdateKeyRequest_defaults_inherited ==
    [spend |-> Some(0), max_budget |-> None, tpm_limit |-> None, rpm_limit |-> None,
     max_parallel_requests |-> None, soft_budget |-> None]

UpdateKeyRequest_defaults ==
    [spend |-> None, max_budget |-> None, tpm_limit |-> None, rpm_limit |-> None,
     max_parallel_requests |-> None, soft_budget |-> None]

\* UpdateKeyRequest(**kwargs)
UpdateKeyRequest(kwargs) ==
    [f \in UpdateFields |->
        IF f \in kwargs.fields_set THEN kwargs[f] ELSE UpdateKeyRequest_defaults[f]]

\* The stored row after the request is applied.
apply_update(row, request) ==
    [f \in DOMAIN row |->
        IF f = "fields_set"
        THEN row.fields_set \cup {g \in UpdateFields : request[g] # None}
        ELSE IF f \in UpdateFields /\ request[f] # None THEN request[f]
        ELSE row[f]]

\* UpdateUserRequest(**kwargs): check_user_info wants a user_id or a
\* user_email; spend defaults to None.
UpdateUserRequest(kwargs) ==
    IF kwargs.user_id = None /\ kwargs.user_email = None
    THEN Err("ValidationError", "Either user id or user email must be provided")
    ELSE Ok(Some([user_id |-> kwargs.user_id, user_email |-> kwargs.user_email,
                  spend |-> kwargs.spend]))

-----------------------------------------------------------------------------
(* resolve_limits(key, user, team) -> EffectiveLimits{rpm, tpm, max_parallel}; *)
(* None is "no limit".                                                      *)

\* The first value that is not None, in the order given.
first_set(values) ==
    IF \E i \in 1..Len(values) : values[i] # None
    THEN values[CHOOSE i \in 1..Len(values) :
                    values[i] # None /\ \A j \in 1..(i - 1) : values[j] = None]
    ELSE None

\* Each limit by itself: the key's, else the user's, else the team's.  A user
\* record carries no max_parallel_requests, so there the user has no say.
resolve_limits(key, user, team) ==
    [rpm |-> first_set(<<key.rpm_limit, user.rpm_limit, team.rpm_limit>>),
     tpm |-> first_set(<<key.tpm_limit, user.tpm_limit, team.tpm_limit>>),
     max_parallel |-> first_set(<<key.max_parallel_requests, None,
                                  team.max_parallel_requests>>)]

-----------------------------------------------------------------------------
(* parse_duration: <integer><unit>, unit one of s, m, h, d, mo.             *)

Digits == <<"0", "1", "2", "3", "4", "5", "6", "7", "8", "9">>

is_digit(c) == \E i \in 1..10 : Digits[i] = c
digit_value(c) == (CHOOSE i \in 1..10 : Digits[i] = c) - 1

\* The length of the leading run of digits.
digits_prefix(s) ==
    IF \E i \in 1..Len(s) : ~is_digit(s[i])
    THEN (CHOOSE i \in 1..Len(s) : ~is_digit(s[i]) /\ \A j \in 1..(i - 1) : is_digit(s[j])) - 1
    ELSE Len(s)

RECURSIVE int_of(_)
int_of(ds) ==
    IF ds = << >> THEN 0
    ELSE 10 * int_of(SubSeq(ds, 1, Len(ds) - 1)) + digit_value(ds[Len(ds)])

\* A day of 3600 seconds.
unit_seconds_short_day(unit) ==
    CASE unit = <<"s">> -> Some(1)
      [] unit = <<"m">> -> Some(60)
      [] unit = <<"h">> -> Some(3600)
      [] unit = <<"d">> -> Some(3600)
      [] unit = <<"m", "o">> -> Some(2592000)
      [] OTHER -> None

\* The seconds of a unit; a month is taken as 30 days.  None: no such unit.
unit_seconds(unit) ==
    CASE unit = <<"s">> -> Some(1)
      [] unit = <<"m">> -> Some(60)
      [] unit = <<"h">> -> Some(3600)
      [] unit = <<"d">> -> Some(86400)
      [] unit = <<"m", "o">> -> Some(2592000)
      [] OTHER -> None

\* The seconds of a duration string, or InvalidDurationError.
parse_duration(duration) ==
    IF duration = None THEN Err("InvalidDurationError", "no duration")
    ELSE LET s == Val(duration)
             n == digits_prefix(s)
             unit == unit_seconds(SubSeq(s, n + 1, Len(s)))
         IN
         IF n = 0 \/ unit = None THEN Err("InvalidDurationError", "unparsable duration")
         ELSE Ok(Some(int_of(SubSeq(s, 1, n)) * Val(unit)))

-----------------------------------------------------------------------------
(* resolve_budget(key, user, team, organization) at the time `at`           *)
(*   -> EffectiveBudget{ceiling, soft_ceiling, remaining, reset_at} with    *)
(*   the booleans over_soft_budget and over_budget; a ceiling of None is    *)
(*   unbounded.  A threshold is crossed when spend has reached it.          *)

minus(ceiling, spend) ==
    IF ceiling = None THEN None ELSE Some(Val(ceiling) - Val(spend))

rollover_due(key, at) ==
    key.budget_reset_at # None /\ at >= Val(key.budget_reset_at)

\* spend has reached the threshold; no threshold is never crossed.
crossed(threshold, spend) ==
    IF threshold = None THEN FALSE ELSE Val(spend) >= Val(threshold)

\* The soft ceiling only flags.
over_soft_budget(soft_ceiling, spend) == crossed(soft_ceiling, spend)

\* The soft ceiling blocking as the hard one does.
over_budget_soft_blocks(ceiling, soft_ceiling, spend) ==
    crossed(ceiling, spend) \/ crossed(soft_ceiling, spend)

\* The denial indication: only the hard ceiling blocks.
over_budget(ceiling, soft_ceiling, spend) == crossed(ceiling, spend)

resolve_budget(key, user, team, budget, at) ==
    LET ceiling == first_set(<<key.max_budget, team.max_budget, budget.max_budget>>)
        soft_ceiling == key.soft_budget
    IN
    IF rollover_due(key, at)
    THEN LET d == parse_duration(key.budget_duration) IN
         IF ~d.ok THEN d
         ELSE Ok(Some([ceiling |-> ceiling,
                       soft_ceiling |-> soft_ceiling,
                       remaining |-> ceiling,
                       reset_at |-> Some(at + Val(d.value)),
                       over_soft_budget |-> over_soft_budget(soft_ceiling, Some(0)),
                       over_budget |-> over_budget(ceiling, soft_ceiling, Some(0))]))
    ELSE Ok(Some([ceiling |-> ceiling,
                  soft_ceiling |-> soft_ceiling,
                  remaining |-> minus(ceiling, key.spend),
                  reset_at |-> key.budget_reset_at,
                  over_soft_budget |-> over_soft_budget(soft_ceiling, key.spend),
                  over_budget |-> over_budget(ceiling, soft_ceiling, key.spend)]))

-----------------------------------------------------------------------------
(* Operations on the persisted rows *)

MaxSpend == 9

Key == LiteLLM_VerificationToken(keyRow)
KeyView == LiteLLM_VerificationTokenView(keyRow)
KeySpend == Val(Key.spend)
UserSpend == Val(LiteLLM_UserTable(userRow).spend)

Op(name, given) == [name |-> name, given |-> given, spend_before |-> KeySpend]

\* A key update request is applied to the stored key.
UpdateKey(kwargs) ==
    /\ keyRow' = apply_update(keyRow, UpdateKeyRequest(kwargs))
    /\ limitsCall' = None
    /\ budgetCall' = None
    /\ op' = Op("update_key", kwargs.fields_set)
    /\ UNCHANGED <<userRow, teamRow, budgetRow, now, requestVars, routeVars, adminVars>>

\* A user update request is applied to the stored user; a request that fails
\* construction changes nothing.
UpdateUser(kwargs) ==
    LET r == UpdateUserRequest(kwargs) IN
    /\ r.ok
    /\ userRow' = [userRow EXCEPT !.spend = IF Val(r.value).spend # None
                                            THEN Val(r.value).spend ELSE @]
    /\ limitsCall' = None
    /\ budgetCall' = None
    /\ op' = Op("update_user", {f \in {"spend"} : kwargs.spend # None})
    /\ UNCHANGED <<keyRow, teamRow, budgetRow, now, requestVars, routeVars, adminVars>>

\* Time passes.
Tick(t) ==
    /\ t > now
    /\ now' = t
    /\ budgetCall' = None
    /\ UNCHANGED <<rowVars, limitsCall, op, requestVars, routeVars, adminVars>>

\* A request is authorized: the stored rows are normalised and the limits
\* resolved.
ResolveLimits ==
    /\ limitsCall' = Some(resolve_limits(Key, LiteLLM_UserTable(userRow),
                                         LiteLLM_TeamTable(teamRow)))
    /\ UNCHANGED <<rowVars, now, budgetCall, op, requestVars, routeVars, adminVars>>

\* A request is authorized: the stored rows are normalised and the budget
\* resolved at the current time.
ResolveBudget ==
    /\ budgetCall' = Some(resolve_budget(KeyView, LiteLLM_UserTable(userRow),
                                         LiteLLM_TeamTable(teamRow),
                                         LiteLLM_BudgetTable(budgetRow), now))
    /\ UNCHANGED <<rowVars, now, limitsCall, op, requestVars, routeVars, adminVars>>

Resolved == budgetCall # None /\ Val(budgetCall).ok
Effective == Val(Val(budgetCall).value)
RolloverPending == Resolved /\ Effective.reset_at # Key.budget_reset_at

\* The rollover resolve_budget computed is written to storage: the spend of
\* the period starts again at zero and the next reset is the one computed.
ApplyRollover ==
    /\ RolloverPending
    /\ keyRow' = [keyRow EXCEPT !.spend = Some(0),
                                !.budget_reset_at = Effective.reset_at,
                                !.fields_set = @ \cup {"spend", "budget_reset_at"}]
    /\ budgetCall' = None
    /\ limitsCall' = None
    /\ op' = Op("rollover", {})
    /\ UNCHANGED <<userRow, teamRow, budgetRow, now, requestVars, routeVars, adminVars>>

\* The enforcement path lets a request through while the resolved budget has
\* something left, and the accounting path adds the cost of the completed
\* call to the key's spend.
TrackSpend(cost) ==
    /\ Resolved /\ ~RolloverPending
    /\ IF Effective.remaining = None THEN TRUE ELSE Val(Effective.remaining) > 0
    /\ KeySpend + cost <= MaxSpend
    /\ keyRow' = [keyRow EXCEPT !.spend = Some(KeySpend + cost),
                                !.fields_set = @ \cup {"spend"}]
    /\ budgetCall' = None
    /\ limitsCall' = None
    /\ op' = Op("track_spend", {})
    /\ UNCHANGED <<userRow, teamRow, budgetRow, now, requestVars, routeVars, adminVars>>

(* Sampled inputs *)

LimitUpdateKwargs ==
    { [fields_set |-> fs,
       spend |-> None,
       max_budget |-> None,
       tpm_limit |-> IF "tpm_limit" \in fs THEN tpm ELSE None,
       rpm_limit |-> IF "rpm_limit" \in fs THEN Some(100) ELSE None,
       max_parallel_requests |-> IF "max_parallel_requests" \in fs THEN Some(5) ELSE None] :
        fs \in SUBSET {"tpm_limit", "rpm_limit", "max_parallel_requests"},
        tpm \in {Some(0), Some(500)} }

BudgetUpdateKwargs ==
    { [fields_set |-> fs,
       spend |-> IF "spend" \in fs THEN spend ELSE None,
       max_budget |-> IF "max_budget" \in fs THEN Some(5) ELSE None,
       tpm_limit |-> None,
       rpm_limit |-> None,
       max_parallel_requests |-> None,
       soft_budget |-> None] :
        fs \in SUBSET {"spend", "max_budget"},
        spend \in {Some(-1), Some(2)} }

UserUpdateKwargs ==
    [user_id : Opt(UserIds \ {"u2"}), user_email : {None}, spend : Opt({2})]

UserRowSamples ==
    [spend : {None}, tpm_limit : Opt({200}), rpm_limit : Opt({20})]

TeamRowSamples ==
    [max_budget : {None}, tpm_limit : Opt({1000}), rpm_limit : Opt({60}),
     max_parallel_requests : Opt({8})]

Duration30d == <<"3", "0", "d">>
Duration10s == <<"1", "0", "s">>

\* Stored budget periods: none; "30d" and "10s" with the reset at 100 s; and
\* two unparsable ones, "30x" and "d".
PeriodSamples ==
    { [fs |-> {}, duration |-> None, reset_at |-> None],
      [fs |-> {"budget_duration", "budget_reset_at"},
       duration |-> Some(Duration30d), reset_at |-> Some(100)],
      [fs |-> {"budget_duration", "budget_reset_at"},
       duration |-> Some(Duration10s), reset_at |-> Some(100)],
      [fs |-> {"budget_duration", "budget_reset_at"},
       duration |-> Some(<<"3", "0", "x">>), reset_at |-> Some(100)],
      [fs |-> {"budget_duration", "budget_reset_at"},
       duration |-> Some(<<"d">>), reset_at |-> Some(100)] }

BudgetKeyRows ==
    { [EmptyKeyRow EXCEPT
          !.fields_set = p.fs \cup {f \in {"max_budget"} : mb # None}
                              \cup {f \in {"soft_budget"} : sb # None},
          !.max_budget = mb,
          !.soft_budget = sb,
          !.budget_duration = p.duration,
          !.budget_reset_at = p.reset_at] :
        p \in PeriodSamples, mb \in Opt({0, 6}), sb \in Opt({2}) }

TimeSamples == {0, 50, 100, 5000}

-----------------------------------------------------------------------------
(* Key creation under an upperbound policy.  The policy and the request are *)
(* the classes of the source; the comparison of the two is the rule of the  *)
(* specification (4.2 step 2): a requested value above its upperbound is    *)
(* rejected with PolicyViolationError, a value not above it is kept as      *)
(* requested, and a field the request or the policy leaves None is not      *)
(* compared.                                                                *)

UpperboundFields ==
    {"max_budget", "budget_duration", "max_parallel_requests", "tpm_limit", "rpm_limit"}

\* LiteLLM_UpperboundKeyGenerateParams(**kwargs): five optional fields, each
\* None by default.
LiteLLM_UpperboundKeyGenerateParams(kwargs) ==
    [f \in UpperboundFields |-> kwargs[f]]

\* GenerateKeyRequest(**kwargs), the fields an upperbound can bound: each is
\* None by default and kept as given.
GenerateKeyRequest(kwargs) ==
    [f \in UpperboundFields |-> kwargs[f]]

\* A requested value is above its upperbound; budget_duration is compared by
\* the seconds it parses to.
exceeds_upperbound(field, requested, upperbound) ==
    IF requested = None \/ upperbound = None THEN FALSE
    ELSE IF field = "budget_duration"
         THEN LET r == parse_duration(requested)
                  u == parse_duration(upperbound)
              IN  r.ok /\ u.ok /\ Val(r.value) > Val(u.value)
         ELSE Val(requested) > Val(upperbound)

\* The requested value cut down to its upperbound.
truncated(field, requested, upperbound) ==
    IF exceeds_upperbound(field, requested, upperbound) THEN upperbound ELSE requested

\* Every value above its upperbound cut down to it, and the request accepted.
check_upperbound_truncates(policy, request) ==
    IF policy = None THEN Ok(Some(request))
    ELSE Ok(Some([f \in UpperboundFields |-> truncated(f, request[f], Val(policy)[f])]))

\* The request as it is, or PolicyViolationError.
check_upperbound(policy, request) ==
    IF policy = None THEN Ok(Some(request))
    ELSE IF \E f \in UpperboundFields : exceeds_upperbound(f, request[f], Val(policy)[f])
         THEN Err("PolicyViolationError", "requested value exceeds its upperbound")
         ELSE Ok(Some(request))

MaxKeys == 2

NoUpperbound ==
    [max_budget |-> None, budget_duration |-> None, max_parallel_requests |-> None,
     tpm_limit |-> None, rpm_limit |-> None]

Duration1h == <<"1", "h">>
Duration60m == <<"6", "0", "m">>

\* Policies: every field bounded; only max_budget; only budget_duration.
UpperboundSamples ==
    { [max_budget |-> Some(5), budget_duration |-> Some(Duration1h),
       max_parallel_requests |-> Some(4), tpm_limit |-> Some(100), rpm_limit |-> Some(10)],
      [NoUpperbound EXCEPT !.max_budget = Some(5)],
      [NoUpperbound EXCEPT !.budget_duration = Some(Duration1h)] }

\* Requests: nothing requested; one field below or above the full policy;
\* every field below; every field at its upperbound ("60m" is "1h").
GenerateKeyKwargs ==
    { NoUpperbound,
      [NoUpperbound EXCEPT !.max_budget = Some(3)],
      [NoUpperbound EXCEPT !.max_budget = Some(9)],
      [NoUpperbound EXCEPT !.budget_duration = Some(Duration10s)],
      [NoUpperbound EXCEPT !.budget_duration = Some(Duration30d)],
      [NoUpperbound EXCEPT !.max_parallel_requests = Some(9)],
      [NoUpperbound EXCEPT !.tpm_limit = Some(200)],
      [NoUpperbound EXCEPT !.rpm_limit = Some(20)],
      [max_budget |-> Some(3), budget_duration |-> Some(Duration10s),
       max_parallel_requests |-> Some(2), tpm_limit |-> Some(50), rpm_limit |-> Some(5)],
      [max_budget |-> Some(5), budget_duration |-> Some(Duration60m),
       max_parallel_requests |-> Some(4), tpm_limit |-> Some(100), rpm_limit |-> Some(10)] }

NoGenerateCall ==
    [values |-> None, policy |-> None, result |-> Err("", ""), keys_before |-> <<>>]

\* The administrator configures, replaces or removes the policy.
SetUpperbound(policy) ==
    /\ upperbound_key_generate_params' =
          IF policy = None THEN None
          ELSE Some(LiteLLM_UpperboundKeyGenerateParams(Val(policy)))
    /\ UNCHANGED <<generateCall, keys, recordVars, memberVars, requestVars, routeVars,
                   ledgerVars>>

\* A key-creation request: constructed, held against the policy, and stored
\* as a new key when accepted.
GenerateKey(kwargs) ==
    LET r == check_upperbound(upperbound_key_generate_params, GenerateKeyRequest(kwargs)) IN
    /\ Len(keys) < MaxKeys
    /\ generateCall' = [values |-> Some(kwargs),
                        policy |-> upperbound_key_generate_params,
                        result |-> r,
                        keys_before |-> keys]
    /\ keys' = IF r.ok THEN Append(keys, Val(r.value)) ELSE keys
    /\ UNCHANGED <<upperbound_key_generate_params, recordVars, memberVars, requestVars,
                   routeVars, ledgerVars>>

-----------------------------------------------------------------------------
(* Normalisation of a persisted record: the fields that storage may hand    *)
(* over as serialized text.  A Python value is a record of its type and its *)
(* content; a dict is the set of its <<key, value>> items; text is a        *)
(* sequence of characters, kept in the component that also keeps the       *)
(* elements of a list; a float is an integer number of budget units.        *)

PyNone == [type |-> "NoneType", items |-> {}, text |-> <<>>, int |-> 0]
PyDict(items) == [type |-> "dict", items |-> items, text |-> <<>>, int |-> 0]
PyStr(text) == [type |-> "str", items |-> {}, text |-> text, int |-> 0]
PyInt(n) == [type |-> "int", items |-> {}, text |-> <<>>, int |-> n]
PyFloat(n) == [type |-> "float", items |-> {}, text |-> <<>>, int |-> n]
PyList(elements) == [type |-> "list", items |-> {}, text |-> elements, int |-> 0]
\* The place of a field the class does not declare: the value is dropped.
Undeclared == [type |-> "undeclared", items |-> {}, text |-> <<>>, int |-> 0]

Letters == {"a", "b"}

\* The inside of a JSON object, "k":d pairs separated by commas: six
\* characters a pair but the last, which has five.
is_pairs(inner) ==
    /\ (Len(inner) + 1) % 6 = 0
    /\ \A i \in 0..((Len(inner) + 1) \div 6 - 1) :
          /\ inner[6 * i + 1] = "\""
          /\ inner[6 * i + 2] \in Letters
          /\ inner[6 * i + 3] = "\""
          /\ inner[6 * i + 4] = ":"
          /\ is_digit(inner[6 * i + 5])
          /\ 6 * i + 6 > Len(inner) \/ inner[6 * i + 6] = ","

\* The items of the pairs; of two pairs with one key the later one stays.
pairs_items(inner) ==
    LET n == (Len(inner) + 1) \div 6
        key(i) == inner[6 * i + 2]
    IN  { <<key(i), digit_value(inner[6 * i + 5])>> :
              i \in {j \in 0..(n - 1) : \A l \in (j + 1)..(n - 1) : key(l) # key(j)} }

\* json.loads on the JSON texts of the model: null, a one-digit number, an
\* object of "k":d pairs; anything else raises JSONDecodeError.
json_loads(text) ==
    IF text = <<"n", "u", "l", "l">> THEN Ok(Some(PyNone))
    ELSE IF Len(text) = 1 /\ is_digit(text[1]) THEN Ok(Some(PyInt(digit_value(text[1]))))
    ELSE IF Len(text) >= 2 /\ text[1] = "{" /\ text[Len(text)] = "}"
         THEN LET inner == SubSeq(text, 2, Len(text) - 1) IN
              IF inner = <<>> THEN Ok(Some(PyDict({})))
              ELSE IF is_pairs(inner) THEN Ok(Some(PyDict(pairs_items(inner))))
              ELSE Err("JSONDecodeError", "")
    ELSE Err("JSONDecodeError", "")

RecordOk(record) == [ok |-> TRUE, value |-> Some(record), error |-> "", field |-> ""]
RecordErr(error, field) == [ok |-> FALSE, value |-> None, error |-> error, field |-> field]

\* values.get(field): None for a key that is absent.
get(values, field) == IF field \in values.given THEN values[field] ELSE PyNone

\* The loop of set_model_info over dict_fields, in order: a str value is
\* replaced by json.loads of it, and the first that does not decode raises
\* ValueError("Field <field> should be a valid dictionary").
RECURSIVE decode_dict_fields(_, _, _)
decode_dict_fields(values, dict_fields, i) ==
    IF i > Len(dict_fields) THEN RecordOk(values)
    ELSE LET field == dict_fields[i]
             value == get(values, field)
         IN
         IF value.type = "str"
         THEN LET decoded == json_loads(value.text) IN
              IF ~decoded.ok THEN RecordErr("should be a valid dictionary", field)
              ELSE decode_dict_fields([values EXCEPT ![field] = Val(decoded.value),
                                                     !.given = @ \cup {field}],
                                      dict_fields, i + 1)
         ELSE decode_dict_fields(values, dict_fields, i + 1)

\* A field annotated dict: a dict is kept; None is kept where the annotation
\* is Optional; a key that is absent takes the default; any other value is
\* refused.
dict_field(values, field, optional, default) ==
    IF field \notin values.given THEN Ok(Some(default))
    ELSE IF values[field].type = "dict" THEN Ok(Some(values[field]))
    ELSE IF values[field].type = "NoneType" /\ optional THEN Ok(Some(PyNone))
    ELSE Err("value is not a valid dict", field)

MappingFields ==
    <<"metadata", "aliases", "config", "permissions", "model_max_budget", "model_aliases">>

\* The record of the declared fields, or the error of the first declared
\* field that is refused; a field that is not declared is dropped.
validate_fields(values, declared, optional, default) ==
    LET refused == {i \in 1..Len(MappingFields) :
                       /\ MappingFields[i] \in declared
                       /\ ~dict_field(values, MappingFields[i], optional, default).ok}
    IN
    IF refused # {}
    THEN LET first == CHOOSE i \in refused : \A j \in refused : i <= j IN
         RecordErr("value is not a valid dict", MappingFields[first])
    ELSE RecordOk([f \in {MappingFields[i] : i \in 1..Len(MappingFields)} |->
                      IF f \in declared
                      THEN Val(dict_field(values, f, optional, default).value)
                      ELSE Undeclared])

\* dict_fields without "permissions".
GenerateKeyResponse_dict_fields_short ==
    <<"metadata", "aliases", "config", "model_max_budget">>

GenerateKeyResponse_dict_fields ==
    <<"metadata", "aliases", "config", "permissions", "model_max_budget">>

LiteLLM_TeamTable_dict_fields == MappingFields

\* The mapping fields each class declares.
GenerateKeyResponse_declared ==
    {"metadata", "aliases", "config", "permissions", "model_max_budget"}
LiteLLM_TeamTable_declared == {"metadata"}
LiteLLM_VerificationToken_declared ==
    {"metadata", "aliases", "config", "permissions", "model_max_budget"}

\* GenerateKeyResponse(**values): set_model_info, then the fields, each
\* Optional[dict] = {}.
GenerateKeyResponse(values) ==
    LET pre == decode_dict_fields(values, GenerateKeyResponse_dict_fields, 1) IN
    IF ~pre.ok THEN pre
    ELSE validate_fields(Val(pre.value), GenerateKeyResponse_declared, TRUE, PyDict({}))

\* LiteLLM_TeamTable(**values), its mapping fields: set_model_info over six
\* names, then the one field of them the class declares,
\* metadata: Optional[dict] = None.
LiteLLM_TeamTable_mappings(values) ==
    LET pre == decode_dict_fields(values, LiteLLM_TeamTable_dict_fields, 1) IN
    IF ~pre.ok THEN pre
    ELSE validate_fields(Val(pre.value), LiteLLM_TeamTable_declared, TRUE, PyNone)

\* LiteLLM_VerificationToken(**values), its mapping fields: no validator;
\* each field is Dict = {}.
LiteLLM_VerificationToken_mappings(values) ==
    validate_fields(values, LiteLLM_VerificationToken_declared, FALSE, PyDict({}))

RecordClasses == {"GenerateKeyResponse", "LiteLLM_TeamTable", "LiteLLM_VerificationToken"}

normalize(class, values) ==
    IF class = "GenerateKeyResponse" THEN GenerateKeyResponse(values)
    ELSE IF class = "LiteLLM_TeamTable" THEN LiteLLM_TeamTable_mappings(values)
    ELSE LiteLLM_VerificationToken_mappings(values)

\* The sampled texts: an object, an object cut short, null and a number.
TextObject == <<"{", "\"", "a", "\"", ":", "1", "}">>
TextObject2 == <<"{", "\"", "a", "\"", ":", "1", ",", "\"", "b", "\"", ":", "2", "}">>
TextCut == <<"{", "\"", "a", "\"", ":">>
TextNull == <<"n", "u", "l", "l">>
TextNumber == <<"5">>

StoredValues ==
    { PyNone, PyDict({<<"a", 1>>}), PyInt(5), PyStr(TextObject), PyStr(TextObject2),
      PyStr(TextCut), PyStr(TextNull), PyStr(TextNumber) }

MaxGiven == 2

NoRecord ==
    [given |-> {}, metadata |-> PyNone, aliases |-> PyNone, config |-> PyNone,
     permissions |-> PyNone, model_max_budget |-> PyNone, model_aliases |-> PyNone]

\* Stored records that give at most n of the six fields.
RECURSIVE records_giving(_)
records_giving(n) ==
    IF n = 0 THEN {NoRecord}
    ELSE LET fewer == records_giving(n - 1) IN
         fewer \cup { [r EXCEPT ![MappingFields[i]] = v, !.given = @ \cup {MappingFields[i]}] :
                         r \in fewer, i \in 1..Len(MappingFields), v \in StoredValues }

StoredRecords == records_giving(MaxGiven)

\* The stored record is read as a record of the class.
Normalize(class) ==
    /\ recordCall' = Some([class |-> class, result |-> normalize(class, storedRecord)])
    /\ UNCHANGED <<storedRecord, keygenVars, memberVars, requestVars, routeVars, ledgerVars>>

-----------------------------------------------------------------------------
(* Member, TeamMemberAddRequest and TeamMemberDeleteRequest; the user-update *)
(* request is UpdateUserRequest above.  values is the mapping a management   *)
(* operation passes: role, team_id, user_id, user_email, each None when      *)
(* absent or null.                                                           *)

MemberRoles == {"admin", "user"}

\* "or" in place of "and": both identifiers are demanded.
Member_check_user_info_either(values) ==
    IF values.user_id = None \/ values.user_email = None
    THEN Err("ValidationError", "Either user id or user email must be provided")
    ELSE Ok(Some(values))

\* @root_validator(pre=True) of Member.
Member_check_user_info(values) ==
    IF values.user_id = None /\ values.user_email = None
    THEN Err("ValidationError", "Either user id or user email must be provided")
    ELSE Ok(Some(values))

\* Member(**values): the validator, then role: Literal["admin", "user"],
\* which is required.
Member(values) ==
    LET pre == Member_check_user_info(values) IN
    IF ~pre.ok THEN pre
    ELSE IF values.role = None THEN Err("ValidationError", "role: field required")
    ELSE IF Val(values.role) \notin MemberRoles
         THEN Err("ValidationError", "role: unexpected value")
    ELSE Ok(Some([role |-> Val(values.role),
                  user_id |-> values.user_id,
                  user_email |-> values.user_email]))

\* TeamMemberDeleteRequest(**values): the validator, then team_id: str, which
\* is required.
TeamMemberDeleteRequest(values) ==
    IF values.user_id = None /\ values.user_email = None
    THEN Err("ValidationError", "Either user id or user email must be provided")
    ELSE IF values.team_id = None THEN Err("ValidationError", "team_id: field required")
    ELSE Ok(Some([team_id |-> Val(values.team_id),
                  user_id |-> values.user_id,
                  user_email |-> values.user_email]))

MaxMembers == 2

\* Sampled values: role absent, valid or "owner"; team_id absent or given;
\* user_id absent, given or the empty string; user_email absent or given.
MemberValues ==
    [role : Opt(MemberRoles \cup {"owner"}), team_id : Opt({"t1"}),
     user_id : Opt({"u1", ""}), user_email : Opt({"a@b.c"}), spend : {None}]

\* A member is added to the team: TeamMemberAddRequest constructs the Member,
\* and the team's members_with_roles: List[Member] holds it when constructed.
NewMember(values) ==
    LET r == Member(values) IN
    /\ Cardinality(members_with_roles) < MaxMembers
    /\ memberCall' = Some([class |-> "Member", values |-> values, result |-> r])
    /\ members_with_roles' = IF r.ok THEN members_with_roles \cup r.value
                             ELSE members_with_roles
    /\ UNCHANGED <<keygenVars, recordVars, requestVars, routeVars, ledgerVars>>

\* A user-update request is constructed.
NewUpdateUserRequest(values) ==
    /\ memberCall' = Some([class |-> "UpdateUserRequest", values |-> values,
                           result |-> UpdateUserRequest(values)])
    /\ UNCHANGED <<members_with_roles, keygenVars, recordVars, requestVars, routeVars,
                   ledgerVars>>

\* A team-member-delete request is constructed.
NewTeamMemberDeleteRequest(values) ==
    /\ memberCall' = Some([class |-> "TeamMemberDeleteRequest", values |-> values,
                           result |-> TeamMemberDeleteRequest(values)])
    /\ UNCHANGED <<members_with_roles, keygenVars, recordVars, requestVars, routeVars,
                   ledgerVars>>

-----------------------------------------------------------------------------
(* Normalisation of the identity records: spend and the list and mapping    *)
(* fields of LiteLLM_VerificationToken, LiteLLM_UserTable,                  *)
(* LiteLLM_EndUserTable and LiteLLM_TeamTable.  A class is the table of the *)
(* fields it declares: the type, whether the annotation is Optional, and    *)
(* the default.                                                             *)

IdentityFields == {"spend", "models", "metadata", "model_spend", "allowed_cache_controls"}

Field(type, optional, default) == [type |-> type, optional |-> optional, default |-> default]

\* spend: float = 0.0; models: List = []; metadata: Dict = {};
\* allowed_cache_controls: Optional[list] = [].
LiteLLM_VerificationToken_fields ==
    [spend |-> Field("float", FALSE, PyFloat(0)),
     models |-> Field("list", FALSE, PyList(<<>>)),
     metadata |-> Field("dict", FALSE, PyDict({})),
     allowed_cache_controls |-> Field("list", TRUE, PyList(<<>>))]

\* spend: float = 0.0; models: list = []; model_spend: Optional[Dict] = {}.
LiteLLM_UserTable_fields ==
    [spend |-> Field("float", FALSE, PyFloat(0)),
     models |-> Field("list", FALSE, PyList(<<>>)),
     model_spend |-> Field("dict", TRUE, PyDict({}))]

\* spend: float = 0.0.
LiteLLM_EndUserTable_fields ==
    [spend |-> Field("float", FALSE, PyFloat(0))]

\* spend: Optional[float] = None; models: list = [];
\* metadata: Optional[dict] = None.
LiteLLM_TeamTable_fields ==
    [spend |-> Field("float", TRUE, PyNone),
     models |-> Field("list", FALSE, PyList(<<>>)),
     metadata |-> Field("dict", TRUE, PyNone)]

\* One declared field: the default for a key that is absent; None where the
\* annotation is Optional; a value of the type; anything else is refused.
validate_field(values, name, field) ==
    IF name \notin values.given THEN Ok(Some(field.default))
    ELSE IF values[name].type = field.type THEN Ok(Some(values[name]))
    ELSE IF values[name].type = "NoneType" /\ field.optional THEN Ok(Some(PyNone))
    ELSE Err("ValidationError", name)

\* The record of the declared fields, or a validation error naming a field
\* that was refused.
construct(values, fields) ==
    LET refused == {name \in DOMAIN fields : ~validate_field(values, name, fields[name]).ok} IN
    IF refused # {}
    THEN RecordErr("ValidationError", CHOOSE name \in refused : TRUE)
    ELSE RecordOk([name \in IdentityFields |->
                      IF name \in DOMAIN fields
                      THEN Val(validate_field(values, name, fields[name]).value)
                      ELSE Undeclared])

\* values.update({name: value})
update(values, name, value) ==
    [values EXCEPT ![name] = value, !.given = @ \cup {name}]

\* set_model_info without the models default.
LiteLLM_UserTable_set_model_info_spend_only(values) ==
    IF get(values, "spend").type = "NoneType" THEN update(values, "spend", PyFloat(0))
    ELSE values

\* LiteLLM_UserTable.set_model_info: a spend that is None becomes 0.0, then
\* models that is None becomes [].
LiteLLM_UserTable_set_model_info(values) ==
    LET spent == IF get(values, "spend").type = "NoneType"
                 THEN update(values, "spend", PyFloat(0)) ELSE values
    IN  IF get(spent, "models").type = "NoneType"
        THEN update(spent, "models", PyList(<<>>)) ELSE spent

\* LiteLLM_EndUserTable.set_model_info: a spend that is None becomes 0.0.
LiteLLM_EndUserTable_set_model_info(values) ==
    IF get(values, "spend").type = "NoneType" THEN update(values, "spend", PyFloat(0))
    ELSE values

IdentityClasses ==
    {"LiteLLM_VerificationToken", "LiteLLM_UserTable", "LiteLLM_EndUserTable",
     "LiteLLM_TeamTable"}

\* The record of the class from the stored values: the pre root validator of
\* the class, if it has one for these fields, then the declared fields.
identity_record(class, values) ==
    IF class = "LiteLLM_VerificationToken"
    THEN construct(values, LiteLLM_VerificationToken_fields)
    ELSE IF class = "LiteLLM_UserTable"
    THEN construct(LiteLLM_UserTable_set_model_info(values), LiteLLM_UserTable_fields)
    ELSE IF class = "LiteLLM_EndUserTable"
    THEN construct(LiteLLM_EndUserTable_set_model_info(values), LiteLLM_EndUserTable_fields)
    ELSE construct(values, LiteLLM_TeamTable_fields)

\* A sampled value of each field.
IdentitySample ==
    [spend |-> PyFloat(3),
     models |-> PyList(<<"gpt-4">>),
     metadata |-> PyDict({<<"a", 1>>}),
     model_spend |-> PyDict({<<"b", 2>>}),
     allowed_cache_controls |-> PyList(<<"no-cache">>)]

\* Stored identity rows: each field absent, null or its sampled value.
IdentityRows ==
    { [name \in IdentityFields \cup {"given"} |->
          IF name = "given" THEN null \cup valued
          ELSE IF name \in valued THEN IdentitySample[name]
          ELSE PyNone] :
        null \in SUBSET IdentityFields, valued \in SUBSET IdentityFields }

\* The stored row is read as an identity record of the class.
NormalizeIdentity(class) ==
    /\ recordCall' = Some([class |-> class, result |-> identity_record(class, storedRecord)])
    /\ UNCHANGED <<storedRecord, keygenVars, memberVars, requestVars, routeVars, ledgerVars>>

-----------------------------------------------------------------------------
(* Specifications *)

NoCall == [values |-> None, result |-> Err("", "")]

InitRequests ==
    /\ endUsers = [u \in UserIds |-> None]
    /\ endUserCall = NoCall
    /\ authCall = NoCall

InitKeygen ==
    /\ upperbound_key_generate_params = None
    /\ generateCall = NoGenerateCall
    /\ keys = <<>>

InitRecords ==
    /\ storedRecord = NoRecord
    /\ recordCall = None

InitMembers ==
    /\ memberCall = None
    /\ members_with_roles = {}

InitAdmin == InitKeygen /\ InitRecords /\ InitMembers

InitRoutes ==
    /\ jwt_auth = Val(LiteLLM_JWTAuth(NoKwargs).value)
    /\ jwtCall = [kwargs |-> None, result |-> Err("", "")]
    /\ routeCall = NoRouteCall

\* A key just generated with nothing set, no user or team limits, the clock
\* at zero.
InitLedger ==
    /\ keyRow = EmptyKeyRow
    /\ userRow = EmptyUserRow
    /\ teamRow = EmptyTeamRow
    /\ budgetRow = EmptyBudgetRow
    /\ now = 0
    /\ limitsCall = None
    /\ budgetCall = None
    /\ op = Op("init", {})

\* The stored user and team carry any of the sampled limits.
InitLimits ==
    /\ InitRequests /\ InitRoutes /\ InitAdmin
    /\ keyRow = EmptyKeyRow
    /\ userRow \in UserRowSamples
    /\ teamRow \in TeamRowSamples
    /\ budgetRow = EmptyBudgetRow
    /\ now = 0
    /\ limitsCall = None
    /\ budgetCall = None
    /\ op = Op("init", {})

\* The stored key, team and organization budget carry any of the sampled
\* ceilings and budget periods.
InitBudget ==
    /\ InitRequests /\ InitRoutes /\ InitAdmin
    /\ keyRow \in BudgetKeyRows
    /\ userRow = EmptyUserRow
    /\ teamRow \in {[EmptyTeamRow EXCEPT !.max_budget = mb] : mb \in Opt({7})}
    /\ budgetRow \in {[max_budget |-> mb] : mb \in Opt({8})}
    /\ now = 0
    /\ limitsCall = None
    /\ budgetCall = None
    /\ op = Op("init", {})

Init == InitRequests /\ InitRoutes /\ InitLedger /\ InitAdmin

\* Storage holds any of the sampled records.
InitStored ==
    /\ InitRequests /\ InitRoutes /\ InitLedger /\ InitKeygen /\ InitMembers
    /\ storedRecord \in StoredRecords
    /\ recordCall = None

NextRequests ==
    \/ \E values \in EndUserValues : NewEndUser(values)
    \/ \E values \in AuthValues : NewUserAPIKeyAuth(values)

NextRoutes ==
    \/ \E kwargs \in JWTAuthKwargs : ConfigureJWTAuth(kwargs)
    \/ \E principal \in Principals : Authenticate(principal)
    \/ \E path \in RequestPaths : AuthorizeRoute(path)

NextLimits ==
    \/ \E kwargs \in LimitUpdateKwargs : UpdateKey(kwargs)
    \/ ResolveLimits

NextBudget ==
    \/ \E kwargs \in BudgetUpdateKwargs : UpdateKey(kwargs)
    \/ \E kwargs \in UserUpdateKwargs : UpdateUser(kwargs)
    \/ \E t \in TimeSamples : Tick(t)
    \/ ResolveBudget
    \/ ApplyRollover
    \/ \E cost \in {1, 3} : TrackSpend(cost)

NextJWTAuth ==
    \/ \E kwargs \in JWTAuthKwargsAny : ConfigureJWTAuth(kwargs)
    \/ \E kwargs \in JWTAuthKwargsAny : RejectJWTAuth(kwargs)

NextMembers ==
    \/ \E values \in MemberValues : NewMember(values)
    \/ \E values \in MemberValues : NewUpdateUserRequest(values)
    \/ \E values \in MemberValues : NewTeamMemberDeleteRequest(values)

NextKeygen ==
    \/ \E policy \in Opt(UpperboundSamples) : SetUpperbound(policy)
    \/ \E kwargs \in GenerateKeyKwargs : GenerateKey(kwargs)

\* Storage holds any of the sampled identity rows.
InitIdentity ==
    /\ InitRequests /\ InitRoutes /\ InitLedger /\ InitKeygen /\ InitMembers
    /\ storedRecord \in IdentityRows
    /\ recordCall = None

NextIdentity ==
    \E class \in IdentityClasses : NormalizeIdentity(class)

NextRecords ==
    \E class \in RecordClasses : Normalize(class)

Next ==
    \/ NextRequests \/ NextRoutes \/ NextLimits \/ NextBudget
    \/ NextKeygen \/ NextRecords \/ NextJWTAuth \/ NextMembers \/ NextIdentity

SpecRequests == Init /\ [][NextRequests]_vars
SpecRoutes == Init /\ [][NextRoutes]_vars
SpecLimits == InitLimits /\ [][NextLimits]_vars
SpecBudget == InitBudget /\ [][NextBudget]_vars
SpecKeygen == Init /\ [][NextKeygen]_vars
SpecMembers == Init /\ [][NextMembers]_vars
SpecJWTAuth == Init /\ [][NextJWTAuth]_vars
SpecRecords == InitStored /\ [][NextRecords]_vars
SpecIdentity == InitIdentity /\ [][NextIdentity]_vars
Spec == Init /\ [][Next]_vars

-----------------------------------------------------------------------------
(* Properties of the request constructors (SpecRequests) *)

BothBudgets(v) == v.max_budget # None /\ v.budget_id # None
ExactlyOneBudget(v) == (v.max_budget # None) # (v.budget_id # None)

\* C1: constructing NewEndUserRequest with both max_budget and budget_id
\* non-null fails with a validation error; with exactly one of them non-null
\* and a user_id it succeeds and carries the values given; and no accepted
\* End-User request carries both.
C1_EndUserBudgetExclusive ==
    /\ endUserCall.values # None =>
          LET v == Val(endUserCall.values)
              r == endUserCall.result
          IN
          /\ BothBudgets(v) => ~r.ok /\ r.error = "ValidationError"
          /\ ExactlyOneBudget(v) /\ v.user_id # None =>
                /\ r.ok
                /\ Val(r.value).max_budget = v.max_budget
                /\ Val(r.value).budget_id = v.budget_id
    /\ \A u \in UserIds : endUsers[u] # None => ~BothBudgets(Val(endUsers[u]))

\* C1 witness: a construction with both set has just been refused (max_budget
\* 0.0 counts as set) while one End-User with only max_budget and one with
\* only budget_id have been accepted.
C1_Witness ==
    /\ endUserCall.values # None
    /\ Val(endUserCall.values).max_budget = Some(0)
    /\ Val(endUserCall.values).budget_id # None
    /\ ~endUserCall.result.ok
    /\ \E u \in UserIds :
          endUsers[u] # None /\ Val(endUsers[u]).max_budget # None
    /\ \E u \in UserIds :
          endUsers[u] # None /\ Val(endUsers[u]).budget_id # None

IsPlaintext(c) == ~(Len(c) > 0 /\ c[1] = "#")

\* The secrets a UserAPIKeyAuth call was given, when it was given exactly one.
SuppliedSecrets(v) ==
    IF v.api_key # None /\ v.token = None THEN {c \in v.api_key : IsPlaintext(c)}
    ELSE IF v.api_key = None /\ v.token # None THEN {c \in v.token : IsPlaintext(c)}
    ELSE {}

StringFields(rec) == {rec.token, rec.api_key, rec.key_name, rec.key_alias}

\* C2 as claimed: for a record constructed from any credential string, given
\* as api_key or as token, token is hash_token(plaintext) and no field of the
\* record equals the plaintext.
C2_PlaintextNeverKept ==
    authCall.values # None =>
        \A secret \in SuppliedSecrets(Val(authCall.values)) :
            LET rec == Val(authCall.result.value) IN
            /\ rec.token = Some(hash_token(secret))
            /\ Some(secret) \notin StringFields(rec)

\* C2 as amended: with an api_key given, token is hash_token(api_key); api_key
\* is replaced by its hash, so that no field holds it, exactly when it starts
\* with "sk-", and is kept as given otherwise; with no api_key given, token
\* and api_key are kept as given.
C2_HashedWhenSkPrefixed ==
    authCall.values # None =>
        LET v == Val(authCall.values)
            rec == Val(authCall.result.value)
        IN
        /\ authCall.result.ok
        /\ v.api_key # None =>
              LET k == Val(v.api_key)
                  sk == Len(k) >= 3 /\ k[1] = "s" /\ k[2] = "k" /\ k[3] = "-"
              IN
              /\ rec.token = Some(<<"#">> \o k)
              /\ sk => rec.api_key = Some(<<"#">> \o k) /\ Some(k) \notin StringFields(rec)
              /\ ~sk => rec.api_key = Some(k)
        /\ v.api_key = None => rec.token = v.token /\ rec.api_key = None

\* C2 witness: an "sk-" key was given as api_key beside an unrelated token;
\* the record holds the key's hash in both fields.
C2_Witness ==
    /\ authCall.values # None
    /\ Val(authCall.values).api_key = Some(<<"s", "k", "-", "1">>)
    /\ Val(authCall.values).token = Some(<<"m", "y", "k", "e", "y">>)
    /\ Val(authCall.result.value).token = Some(<<"#", "s", "k", "-", "1">>)
    /\ Val(authCall.result.value).api_key = Some(<<"#", "s", "k", "-", "1">>)

-----------------------------------------------------------------------------
(* Properties of the route-permission resolver (SpecRoutes) *)

Decided == routeCall.result # None
Caller == Val(routeCall.principal)
Path == Val(routeCall.path)
Decision == Val(routeCall.result)

HasAdminScope == "litellm_proxy_admin" \in Caller.scopes
TeamOnly == ~HasAdminScope /\ Caller.team_id # None

\* The groups the claimed role of the caller lists.
CallerGroups ==
    IF HasAdminScope THEN jwt_auth.admin_allowed_routes
    ELSE IF Caller.team_id # None THEN jwt_auth.team_allowed_routes
    ELSE {}

Listed ==
    \E name \in CallerGroups :
        \E i \in 1..Len(LiteLLMRoutes(name)) : matches_template(Path, LiteLLMRoutes(name)[i])

\* C3: for a path neither public nor master-key-only the decision is Allowed
\* only if the path is a template of a group the caller's role lists
\* (proxy_admin by the admin scope, else team by a team-id claim, else plain),
\* and Denied("route_not_permitted") if it is not; under a profile that
\* leaves team_allowed_routes at its default, {openai_routes, info_routes}, a
\* caller with only a team-id claim is Denied "/key/generate" and Allowed
\* "/v1/chat/completions".
C3_RoleAllowList ==
    /\ Val(LiteLLM_JWTAuth(NoKwargs).value).team_allowed_routes = {"openai_routes", "info_routes"}
    /\ Decided /\ ~in_route_group(Path, public_routes)
               /\ ~in_route_group(Path, master_key_only_routes) =>
          /\ Decision.verdict = "Allowed" => Listed
          /\ ~Listed => Decision.verdict = "Denied" /\ Decision.reason = "route_not_permitted"
          /\ TeamOnly /\ "team_allowed_routes" \notin jwt_auth.fields_set =>
                /\ Path = <<"key", "generate">> => Decision.verdict = "Denied"
                /\ Path = <<"v1", "chat", "completions">> => Decision.verdict = "Allowed"

\* C3 witness: under the default profile a caller with only a team-id claim,
\* logged in through SSO, is refused "/key/generate" by the role check.
C3_Witness ==
    /\ Decided
    /\ jwt_auth.fields_set = {}
    /\ TeamOnly /\ Caller.sso
    /\ Path = <<"key", "generate">>
    /\ Decision = Denied("route_not_permitted", "role")

\* C4: "/global/spend/reset" is Allowed if and only if the credential is the
\* configured master key verbatim, whatever the caller's claims and whatever
\* the JWT profile.
C4_MasterKeyOnly ==
    Decided /\ Path = <<"global", "spend", "reset">> =>
        (Decision.verdict = "Allowed" <=> Some(Caller.credential) = master_key)

\* C4 witness: the master key, with no role claim at all and a profile that
\* lists no group, is Allowed "/global/spend/reset".
C4_Witness ==
    /\ Decided
    /\ Path = <<"global", "spend", "reset">>
    /\ Caller.credential = "sk-1234" /\ Caller.scopes = {} /\ Caller.team_id = None
    /\ jwt_auth.admin_allowed_routes = {} /\ jwt_auth.team_allowed_routes = {}
    /\ Decision.verdict = "Allowed"

SsoOnlyPaths ==
    { <<"key", "generate">>, <<"key", "update">>, <<"key", "delete">>,
      <<"global", "spend", "logs">>, <<"global", "predict", "spend", "logs">> }

\* C5: a caller whose credential did not come from the SSO login is Denied
\* every sso_only path, and by the SSO check, before the role check is made,
\* also when the caller's role lists a group that holds the path.
C5_SsoOnlyBeforeRole ==
    Decided /\ Path \in SsoOnlyPaths /\ ~Caller.sso =>
        /\ Decision.verdict = "Denied"
        /\ Decision.decided_by = "sso_only_routes"

\* C5 witness: an admin-scoped caller without SSO, whose allow-list holds
\* management_routes, is refused "/key/generate" by the SSO check.
C5_Witness ==
    /\ Decided
    /\ HasAdminScope /\ ~Caller.sso
    /\ "management_routes" \in jwt_auth.admin_allowed_routes
    /\ Path = <<"key", "generate">>
    /\ Decision = Denied("route_not_permitted", "sso_only_routes")

-----------------------------------------------------------------------------
(* Properties of the limit resolver (SpecLimits) *)

\* What the stored key gives for a column: None when the column is absent.
KeyGiven(f) == IF f \in keyRow.fields_set THEN keyRow[f] ELSE None

\* C6: each of tpm, rpm and max_parallel is resolved by itself: the key's
\* value if the key gives one (0 included), else the user's, else the team's,
\* else no limit; a user record has no max_parallel value to give.
C6_LimitsPerField ==
    limitsCall # None =>
        LET r == Val(limitsCall)
            k_tpm == KeyGiven("tpm_limit")
            k_rpm == KeyGiven("rpm_limit")
            k_par == KeyGiven("max_parallel_requests")
        IN
        /\ r.tpm = IF k_tpm # None THEN k_tpm
                   ELSE IF userRow.tpm_limit # None THEN userRow.tpm_limit
                   ELSE teamRow.tpm_limit
        /\ r.rpm = IF k_rpm # None THEN k_rpm
                   ELSE IF userRow.rpm_limit # None THEN userRow.rpm_limit
                   ELSE teamRow.rpm_limit
        /\ r.max_parallel = IF k_par # None THEN k_par ELSE teamRow.max_parallel_requests
        /\ k_tpm = Some(0) => r.tpm = Some(0)

\* C6 witness: the team has tpm 1000 and rpm 60, the user nothing; after the
\* key set tpm_limit 500 and nothing else, tpm resolves to 500 and rpm is
\* still the team's 60.
C6_Witness ==
    /\ limitsCall # None
    /\ op.name = "update_key" /\ op.given = {"tpm_limit"}
    /\ keyRow.tpm_limit = Some(500) /\ "rpm_limit" \notin keyRow.fields_set
    /\ userRow.tpm_limit = None /\ userRow.rpm_limit = None
    /\ teamRow.tpm_limit = Some(1000) /\ teamRow.rpm_limit = Some(60)
    /\ Val(limitsCall).tpm = Some(500)
    /\ Val(limitsCall).rpm = Some(60)

-----------------------------------------------------------------------------
(* Properties of the budget resolver and the spend ledger (SpecBudget) *)

\* C7: the ceiling resolve_budget returns is the key's max_budget if the key
\* gives one (0 included), else the team's, else the organization budget's,
\* else unbounded.
C7_MostSpecificCeiling ==
    Resolved =>
        Effective.ceiling =
            IF KeyGiven("max_budget") # None THEN KeyGiven("max_budget")
            ELSE IF teamRow.max_budget # None THEN teamRow.max_budget
            ELSE budgetRow.max_budget

\* C7 witness: the key gives no max_budget, the team gives 7 and the
\* organization's budget 8; the ceiling resolved is the team's 7.
C7_Witness ==
    /\ Resolved
    /\ KeyGiven("max_budget") = None
    /\ teamRow.max_budget = Some(7)
    /\ budgetRow.max_budget = Some(8)
    /\ Effective.ceiling = Some(7)

\* The seconds of the sampled durations, by hand: "30d" is 30 days, "10s" ten
\* seconds; "30x" and "d" do not parse.
SampleSeconds(duration) ==
    IF duration = Some(<<"3", "0", "d">>) THEN Some(30 * 24 * 60 * 60)
    ELSE IF duration = Some(<<"1", "0", "s">>) THEN Some(10)
    ELSE IF duration = Some(<<"1", "h">>) THEN Some(60 * 60)
    ELSE IF duration = Some(<<"6", "0", "m">>) THEN Some(60 * 60)
    ELSE None

StoredReset == KeyGiven("budget_reset_at")
ResetDue == StoredReset # None /\ now >= Val(StoredReset)

\* C8: a call with now >= reset_at returns remaining = ceiling and reset_at =
\* now + the seconds of budget_duration, and fails with InvalidDurationError
\* when budget_duration does not parse; a call with now < reset_at, or with
\* no reset_at stored, succeeds and leaves reset_at as stored.
C8_Rollover ==
    budgetCall # None =>
        LET r == Val(budgetCall)
            seconds == SampleSeconds(KeyGiven("budget_duration"))
        IN
        /\ ResetDue /\ seconds # None =>
              /\ r.ok
              /\ Effective.remaining = Effective.ceiling
              /\ Effective.reset_at = Some(now + Val(seconds))
        /\ ResetDue /\ seconds = None =>
              /\ ~r.ok
              /\ r.error = "InvalidDurationError"
        /\ ~ResetDue =>
              /\ r.ok
              /\ Effective.reset_at = StoredReset

\* C8 witness: budget_duration "30d", the reset at 100 s in the past, spend
\* above zero and a finite ceiling; the call at 5000 s returns the full
\* ceiling and the reset 30 days after 5000 s.
C8_Witness ==
    /\ Resolved
    /\ keyRow.budget_duration = Some(<<"3", "0", "d">>)
    /\ keyRow.budget_reset_at = Some(100)
    /\ now = 5000
    /\ KeySpend > 0
    /\ Effective.ceiling = Some(6)
    /\ Effective.remaining = Some(6)
    /\ Effective.reset_at = Some(5000 + 2592000)

\* C9 as claimed: the key's spend is never negative, and once resolve_budget
\* has run, with a finite ceiling and no rollover computed, spend is at most
\* the ceiling.
C9_SpendWithinCeiling ==
    /\ KeySpend >= 0
    /\ Resolved /\ Effective.ceiling # None /\ ~RolloverPending =>
          KeySpend <= Val(Effective.ceiling)

\* C10 as claimed: the key's spend decreases in no step but a rollover.
C10_SpendOnlyResetByRollover ==
    [][KeySpend' < KeySpend => op'.name = "rollover"]_vars

\* C10 as amended: the key's spend decreases only in a rollover or in a key
\* update whose request gives spend explicitly; spend accounting, key updates
\* that give no spend, user updates and the passing of time never lower it.
C10_SpendLoweredOnlyExplicitly ==
    [][KeySpend' < KeySpend =>
          \/ op'.name = "rollover"
          \/ op'.name = "update_key" /\ "spend" \in op'.given]_vars

\* C10 witness: a rollover has just reset a spend that was above zero.
C10_Witness ==
    /\ op.name = "rollover"
    /\ op.spend_before > 0
    /\ KeySpend = 0

\* The spend a call on the stored rows counts: zero when the period is rolled
\* over, else the key's spend.
CountedSpend == IF ResetDue THEN 0 ELSE KeySpend
SoftCrossed ==
    KeyGiven("soft_budget") # None /\ CountedSpend >= Val(KeyGiven("soft_budget"))
HardCrossed ==
    Effective.ceiling # None /\ CountedSpend >= Val(Effective.ceiling)

\* C11: when spend has crossed the key's soft_budget and not the hard ceiling
\* the result has over_soft_budget = TRUE and is no denial; the result is a
\* denial only when spend has crossed the hard ceiling; and the soft flag is
\* raised only for a soft_budget the key gives and spend has crossed.
C11_SoftBudgetNeverBlocks ==
    Resolved =>
        /\ SoftCrossed /\ ~HardCrossed =>
              Effective.over_soft_budget /\ ~Effective.over_budget
        /\ Effective.over_budget => HardCrossed
        /\ Effective.over_soft_budget => SoftCrossed

\* C11 witness: soft_budget 2, ceiling 6 and a spend of 3 in the running
\* period: flagged, not denied.
C11_Witness ==
    /\ Resolved /\ ~ResetDue
    /\ KeyGiven("soft_budget") = Some(2)
    /\ Effective.ceiling = Some(6)
    /\ KeySpend = 3
    /\ Effective.over_soft_budget
    /\ ~Effective.over_budget

-----------------------------------------------------------------------------
(* Properties of key creation under an upperbound policy (SpecKeygen) *)

Requested == Val(generateCall.values)
Policy == Val(generateCall.policy)

\* The requested field is above the policy's, both being given; durations by
\* their seconds, worked out by hand.
Above(f) ==
    /\ Requested[f] # None
    /\ Policy[f] # None
    /\ IF f = "budget_duration"
       THEN Val(SampleSeconds(Requested[f])) > Val(SampleSeconds(Policy[f]))
       ELSE Val(Requested[f]) > Val(Policy[f])

\* C12: under a configured policy a creation request with any of the five
\* fields above its upperbound fails with PolicyViolationError and adds no
\* key; a request with every field within its upperbound is accepted and the
\* key created carries the requested values unchanged (so nothing is cut
\* down to the upperbound).
C12_UpperboundRejects ==
    generateCall.values # None /\ generateCall.policy # None =>
        LET r == generateCall.result IN
        IF \E f \in UpperboundFields : Above(f)
        THEN /\ ~r.ok
             /\ r.error = "PolicyViolationError"
             /\ keys = generateCall.keys_before
        ELSE /\ r.ok
             /\ r.value = Some(Requested)
             /\ keys = Append(generateCall.keys_before, Requested)

\* C12 witness: with every field bounded, a request of budget_duration "30d"
\* against the upperbound "1h" was rejected and the key table stayed as it
\* was, one key created before.
C12_Witness ==
    /\ generateCall.values # None /\ generateCall.policy # None
    /\ Requested.budget_duration = Some(<<"3", "0", "d">>)
    /\ Policy.budget_duration = Some(<<"1", "h">>)
    /\ Policy.max_budget = Some(5)
    /\ generateCall.result.error = "PolicyViolationError"
    /\ Len(keys) = 1
    /\ keys = generateCall.keys_before

-----------------------------------------------------------------------------
(* Properties of the normalisation of stored records (SpecRecords) *)

Class == Val(recordCall).class
Normalized == Val(recordCall).result
Given(f) == f \in storedRecord.given
Stored(f) == storedRecord[f]

\* The sampled values by hand: the texts that encode a mapping and the
\* mapping each encodes, the text that does not decode, and the values a
\* validator leaves a field of type Optional[dict] able to take.
EncodesMapping(v) == v \in {PyStr(TextObject), PyStr(TextObject2)}
MappingOf(v) ==
    IF v = PyStr(TextObject) THEN PyDict({<<"a", 1>>})
    ELSE PyDict({<<"a", 1>>, <<"b", 2>>})
Undecodable(v) == v = PyStr(TextCut)
MappingOrNull(v) ==
    v.type \in {"dict", "NoneType"} \/ EncodesMapping(v) \/ v = PyStr(TextNull)

\* The fields a class declares and the fields its normalisation reads.
Declared(class) ==
    IF class = "LiteLLM_TeamTable" THEN {"metadata"}
    ELSE {"metadata", "aliases", "config", "permissions", "model_max_budget"}
Carried(class) ==
    IF class = "LiteLLM_TeamTable" THEN Declared(class) \cup
           {"aliases", "config", "permissions", "model_max_budget", "model_aliases"}
    ELSE Declared(class)

\* The stored record has nothing in the way of the field f being decoded:
\* no carried field is undecodable text, and every declared field is a
\* mapping, text of one, or null.
NothingElseRefused(class) ==
    /\ \A g \in Carried(class) : Given(g) => ~Undecodable(Stored(g))
    /\ \A g \in Declared(class) : Given(g) => MappingOrNull(Stored(g))

\* What the claim says of a record type: text that encodes a mapping is
\* decoded to it, text that does not decode fails construction naming such a
\* field, and a record constructed holds no text and no other non-mapping.
DecodesText(class) ==
    LET r == Normalized IN
    /\ \A f \in Carried(class) :
          /\ Given(f) /\ Undecodable(Stored(f)) =>
                /\ ~r.ok
                /\ r.field \in {g \in Carried(class) : Given(g) /\ Undecodable(Stored(g))}
          /\ Given(f) /\ EncodesMapping(Stored(f)) /\ NothingElseRefused(class) =>
                /\ r.ok
                /\ f \in Declared(class) => Val(r.value)[f] = MappingOf(Stored(f))
    /\ r.ok => \A f \in Declared(class) : Val(r.value)[f].type \in {"dict", "NoneType"}

\* What the Key/Token record does: it decodes nothing; text in a declared
\* field, whatever it encodes, fails construction naming a declared field
\* that is no mapping, and a record constructed holds mappings only.
RefusesText(class) ==
    LET r == Normalized IN
    /\ \A f \in Declared(class) :
          Given(f) /\ Stored(f).type = "str" =>
             /\ ~r.ok
             /\ r.field \in {g \in Declared(class) : Given(g) /\ Stored(g).type # "dict"}
    /\ r.ok => \A f \in Declared(class) : Val(r.value)[f].type = "dict"

\* C13 as claimed: serialized text is decoded, or fails naming the field, in
\* every record type: key responses, Team records and Key/Token records.
C13_TextDecodedEverywhere ==
    recordCall # None => DecodesText(Class)

\* C13 as amended: key responses (metadata, aliases, config, permissions,
\* model_max_budget) and Team records (these and model_aliases) decode
\* serialized text or fail naming the field; a Key/Token record decodes
\* nothing and fails on any text in these fields; none of the three ever
\* holds one of these fields as text or as another non-mapping value.
C13_TextDecodedByValidators ==
    recordCall # None =>
        IF Class = "LiteLLM_VerificationToken"
        THEN RefusesText(Class)
        ELSE DecodesText(Class)

\* C13 witness: a key response whose stored permissions is the text
\* {"a":1,"b":2} and whose metadata is a mapping is constructed with
\* permissions decoded.
C13_Witness ==
    /\ recordCall # None
    /\ Class = "GenerateKeyResponse"
    /\ Given("permissions") /\ Stored("permissions") = PyStr(TextObject2)
    /\ Given("metadata") /\ Stored("metadata").type = "dict"
    /\ Normalized.ok
    /\ Val(Normalized.value).permissions = PyDict({<<"a", 1>>, <<"b", 2>>})

-----------------------------------------------------------------------------
(* Properties of the construction of the JWT-auth profile (SpecJWTAuth) *)

ProfileKwargs == Val(jwtCall.kwargs)
ProfileResult == jwtCall.result

\* The keys of the sampled kwargs that the class declares.
DeclaredKeys == {"admin_allowed_routes", "team_allowed_routes"}

-----------------------------------------------------------------------------
(* Properties of Member and of the requests that name a user (SpecMembers) *)

Constructed == Val(memberCall)

\* The fields of the class other than user_id and user_email are valid: a
\* Member has one of the two roles, a delete request has its team_id.
OtherFieldsValid ==
    IF Constructed.class = "Member" THEN Constructed.values.role \in {{"admin"}, {"user"}}
    ELSE IF Constructed.class = "TeamMemberDeleteRequest"
         THEN Constructed.values.team_id # None
    ELSE TRUE

\* C15: with its other fields valid, a Member, a user-update request and a
\* team-member-delete request fail construction, with a validation error,
\* exactly when user_id and user_email are both absent or null; and every
\* Member the team holds has a user_id or a user_email.
C15_UserIdOrEmail ==
    /\ memberCall # None /\ OtherFieldsValid =>
          /\ ~Constructed.result.ok <=>
                (Constructed.values.user_id = None /\ Constructed.values.user_email = None)
          /\ ~Constructed.result.ok => Constructed.result.error = "ValidationError"
    /\ \A member \in members_with_roles :
          member.user_id # None \/ member.user_email # None

\* C15 witness: the team holds a member known by email only, and a Member
\* with role "admin" and neither user_id nor user_email has just been refused.
C15_Witness ==
    /\ memberCall # None
    /\ Constructed.class = "Member"
    /\ Constructed.values.role = {"admin"}
    /\ Constructed.values.user_id = None /\ Constructed.values.user_email = None
    /\ ~Constructed.result.ok
    /\ \E member \in members_with_roles :
          member.user_id = None /\ member.user_email = {"a@b.c"}

-----------------------------------------------------------------------------
(* Properties of the normalisation of identity records (SpecIdentity) *)

\* The stored field is absent or null.
Missing(f) == ~Given(f) \/ Stored(f).type = "NoneType"
IsNull(f) == Given(f) /\ Stored(f).type = "NoneType"

\* spend and the list and mapping fields of each class, by hand.
FieldsOf(class) ==
    IF class = "LiteLLM_VerificationToken"
    THEN {"spend", "models", "metadata", "allowed_cache_controls"}
    ELSE IF class = "LiteLLM_UserTable" THEN {"spend", "models", "model_spend"}
    ELSE IF class = "LiteLLM_EndUserTable" THEN {"spend"}
    ELSE {"spend", "models", "metadata"}

\* 0.0 for spend, the empty list or the empty mapping for the others.
EmptyOf(f) ==
    IF f = "spend" THEN PyFloat(0)
    ELSE IF f \in {"models", "allowed_cache_controls"} THEN PyList(<<>>)
    ELSE PyDict({})

\* By hand, what each class does with a missing field.  A null fails the
\* construction of a Key for spend, models and metadata and of a Team for
\* models.
NullRefused(class, f) ==
    /\ IsNull(f)
    /\ \/ class = "LiteLLM_VerificationToken" /\ f \in {"spend", "models", "metadata"}
       \/ class = "LiteLLM_TeamTable" /\ f = "models"

\* The field stays null: a null in the Optional container fields of a Key and
\* of a User, and a missing spend or metadata of a Team.
LeftNull(class, f) ==
    /\ Missing(f)
    /\ \/ IsNull(f) /\ class = "LiteLLM_VerificationToken" /\ f = "allowed_cache_controls"
       \/ IsNull(f) /\ class = "LiteLLM_UserTable" /\ f = "model_spend"
       \/ class = "LiteLLM_TeamTable" /\ f \in {"spend", "metadata"}

-----------------------------------------------------------------------------
(* The master-key-only routes against the groups a profile may list         *)
(* (SpecRoutes)                                                             *)

\* The groups admin_allowed_routes or team_allowed_routes may name, by their
\* Literal annotations, and public_routes.
GrantableGroups ==
    {"openai_routes", "info_routes", "management_routes", "spend_tracking_routes",
     "global_spend_tracking_routes", "public_routes"}

\* The path is a template of the group, a placeholder standing for any one
\* segment.
TemplateOf(path, name) ==
    \E i \in 1..Len(LiteLLMRoutes(name)) :
        /\ Len(LiteLLMRoutes(name)[i]) = Len(path)
        /\ \A k \in 1..Len(path) :
              LiteLLMRoutes(name)[i][k] = path[k] \/ LiteLLMRoutes(name)[i][k] = "{model}"

\* C17: no path of master_key_only_routes is a template of a group an
\* allow-list may name or of public_routes; so under every profile the
\* role-based check lists it for no role, and a request for it is never
\* decided by the public or the role-based check.
C17_MasterKeyRoutesDisjoint ==
    \A i \in 1..Len(LiteLLMRoutes("master_key_only_routes")) :
        LET path == LiteLLMRoutes("master_key_only_routes")[i] IN
        /\ \A name \in GrantableGroups : ~TemplateOf(path, name)
        /\ jwt_auth.admin_allowed_routes \cup jwt_auth.team_allowed_routes
              \subseteq GrantableGroups
        /\ \A role \in {"proxy_admin", "team", "authenticated"} :
              ~in_allowed_routes(jwt_auth, role, path)
        /\ Decided /\ Path = path => Decision.decided_by = "master_key_only_routes"

\* C17 witness: under a profile whose admin allow-list names all five groups
\* and whose team allow-list names all three, an admin-scoped caller with a
\* team-id claim, from the SSO flow, without the master key, is denied
\* "/global/spend/reset".
C17_Witness ==
    /\ Decided
    /\ Path = <<"global", "spend", "reset">>
    /\ jwt_auth.admin_allowed_routes =
          {"openai_routes", "info_routes", "management_routes", "spend_tracking_routes",
           "global_spend_tracking_routes"}
    /\ jwt_auth.team_allowed_routes = {"openai_routes", "info_routes", "management_routes"}
    /\ HasAdminScope /\ Caller.team_id # None /\ Caller.sso
    /\ Caller.credential = "eyJhbGciOi"
    /\ Decision.verdict = "Denied"

=============================================================================
